---- MODULE Spec2Model ----
(***************************************************************************)
(* Model of the IP analysis backend (src/backend/server.js): the cache     *)
(* freshness decision, the classifier deriveIPAnalysisResult and the       *)
(* per-IP loop of POST /api/analyze-ips, with the ip_cache table, the      *)
(* geo collaborator (ip-api.com) and the threat collaborator (AbuseIPDB),  *)
(* and of the front end's upload handler and view selection (App.tsx).     *)
(*                                                                         *)
(* A request handler is a process whose steps are the stretches of code    *)
(* between two awaits: cache read, geo fetch, threat fetch, cache write.   *)
(* Time is in milliseconds, as Date.now().                                 *)
(***************************************************************************)
EXTENDS Integers, Sequences, FiniteSets, TLC

VARIABLES
    cache,            \* the rows of table ip_cache
    clock,            \* Date.now() / CURRENT_TIMESTAMP
    ticks,            \* number of clock advances so far (bounds the run)
    columnDefault,    \* what the table gives query_time / threat_cached_at on INSERT
    apiKeySet,        \* whether ABUSEIPDB_API_KEY is set
    req,              \* per request handler: its position and its local variables
    threatStoredAt,   \* history: per IP, when threat fields that came from a call of
                      \* the threat collaborator were last written to the cache
    probe,            \* a call of deriveIPAnalysisResult on its own: arguments and result
    ui                \* the front end (App.tsx): its React state and where an upload stands

vars == <<cache, clock, ticks, columnDefault, apiKeySet, req, threatStoredAt, probe, ui>>

----------------------------------------------------------------------------
(* Bounds of the model *)

MaxBatch == 2
MaxTicks == 3
MaxAttempts == 2
MaxCategories == 2
MaxLines == 2

(* Values *)

NULL == "NULL"                 \* JS null / undefined / SQL NULL in a string field
NullTime == 0 - 1              \* SQL NULL / JS null in a timestamp field
InvalidDate == 0 - 2           \* a value new Date() turns into Invalid Date
NullRec == [null |-> TRUE]     \* JS null where an object is expected

HourMs == 60 * 60 * 1000
TWENTY_FOUR_HOURS_MS == 24 * 60 * 60 * 1000

TickSteps == {HourMs, 23 * HourMs}

Reqs == {1, 2}
IPs == {"1.2.3.4", "5.6.7.8"}

RECURSIVE SeqsUpTo(_, _)
SeqsUpTo(S, n) ==
    IF n = 0 THEN {<<>>}
    ELSE LET shorter == SeqsUpTo(S, n - 1)
         IN  shorter \cup {Append(q, x) : q \in {t \in shorter : Len(t) = n - 1}, x \in S}

(* Request bodies: no ipAddresses field, a non-array one, or an array. *)
BodiesOver(lists) ==
    {[kind |-> "missing"], [kind |-> "nonarray"]}
    \cup {[kind |-> "array", ipAddresses |-> l] : l \in lists}

Bodies == BodiesOver(SeqsUpTo(IPs, MaxBatch))

(* Requests for one address, one at a time. *)
AgingBodies == BodiesOver({<<>>, <<"1.2.3.4">>})

----------------------------------------------------------------------------
(* JavaScript helpers *)

Field(r, f) == IF f \in DOMAIN r THEN r[f] ELSE NULL

OrFalse(r, f) == IF f \in DOMAIN r THEN r[f] ELSE FALSE

OrZero(r, f) == IF f \in DOMAIN r THEN r[f] ELSE 0

TimeField(r, f) == IF f \in DOMAIN r THEN r[f] ELSE NullTime

OrUnknown(r, f) ==
    IF f \in DOMAIN r /\ r[f] # NULL /\ r[f] # "" THEN r[f] ELSE "Unknown"

includes(list, x) == \E i \in DOMAIN list : list[i] = x

toLowerCase(c) ==
    CASE c = "Malware" -> "malware"
      [] c = "Phishing" -> "phishing"
      [] c = "Botnet" -> "botnet"
      [] c = "Spam" -> "spam"
      [] c = "Port Scan" -> "port scan"
      [] c = "Tor Exit Node" -> "tor exit node"
      [] OTHER -> c

replaceWhitespace(c) ==
    CASE c = "port scan" -> "port_scan"
      [] c = "Port Scan" -> "Port_Scan"
      [] c = "tor exit node" -> "tor_exit_node"
      [] c = "Tor Exit Node" -> "Tor_Exit_Node"
      [] OTHER -> c

(* An ISO-8601 string is kept apart from the instant it denotes. *)
toISOString(t) == [iso |-> t]

parseTimestamp(s) == s.iso

----------------------------------------------------------------------------
(* The classifier *)

DetailsOf(geoIpData) ==
    [malware |-> FALSE, phishing |-> FALSE, spam |-> FALSE, botnet |-> FALSE,
     proxy |-> OrFalse(geoIpData, "proxy"),
     tor |-> Field(geoIpData, "query") = "Tor",
     categories |-> <<>>]

(* ThresholdOf with the bands open at their lower ends. *)
ThresholdOfExclusive(confidence) ==
    IF confidence > 90 THEN [status |-> "malicious", threatLevel |-> "critical"]
    ELSE IF confidence > 70 THEN [status |-> "malicious", threatLevel |-> "high"]
    ELSE IF confidence > 40 THEN [status |-> "suspicious", threatLevel |-> "medium"]
    ELSE IF confidence > 0 THEN [status |-> "suspicious", threatLevel |-> "low"]
    ELSE [status |-> "safe", threatLevel |-> "low"]

ThresholdOf(confidence) ==
    IF confidence >= 90 THEN [status |-> "malicious", threatLevel |-> "critical"]
    ELSE IF confidence >= 70 THEN [status |-> "malicious", threatLevel |-> "high"]
    ELSE IF confidence >= 40 THEN [status |-> "suspicious", threatLevel |-> "medium"]
    ELSE IF confidence > 0 THEN [status |-> "suspicious", threatLevel |-> "low"]
    ELSE [status |-> "safe", threatLevel |-> "low"]

(* CategoryOf with spam tested before malware and phishing. *)
CategoryOfSpamFirst(c) ==
    IF Len(c.details.categories) > 0
    THEN LET categories == [i \in DOMAIN c.details.categories |->
                                  toLowerCase(c.details.categories[i])]
         IN  IF includes(categories, "spam")
                 THEN [c EXCEPT !.threatType = "spam", !.details.spam = TRUE]
             ELSE IF includes(categories, "malware")
                 THEN [c EXCEPT !.threatType = "malware", !.details.malware = TRUE]
             ELSE IF includes(categories, "phishing")
                 THEN [c EXCEPT !.threatType = "phishing", !.details.phishing = TRUE]
             ELSE IF includes(categories, "botnet")
                 THEN [c EXCEPT !.threatType = "botnet", !.details.botnet = TRUE]
             ELSE IF includes(categories, "proxy")
                 THEN [c EXCEPT !.threatType = "proxy", !.details.proxy = TRUE]
             ELSE IF includes(categories, "tor exit node")
                 THEN [c EXCEPT !.threatType = "tor", !.details.tor = TRUE]
             ELSE [c EXCEPT !.threatType =
                      IF categories[1] # "" THEN replaceWhitespace(categories[1])
                      ELSE "unknown_category"]
    ELSE IF c.confidence > 0 /\ c.threatType = "none"
         THEN [c EXCEPT !.threatType = "generic_suspicious"]
         ELSE c

(* threatType and detail flags from the category list; c is the result so far. *)
CategoryOf(c) ==
    IF Len(c.details.categories) > 0
    THEN LET categories == [i \in DOMAIN c.details.categories |->
                                  toLowerCase(c.details.categories[i])]
         IN  IF includes(categories, "malware")
                 THEN [c EXCEPT !.threatType = "malware", !.details.malware = TRUE]
             ELSE IF includes(categories, "phishing")
                 THEN [c EXCEPT !.threatType = "phishing", !.details.phishing = TRUE]
             ELSE IF includes(categories, "spam")
                 THEN [c EXCEPT !.threatType = "spam", !.details.spam = TRUE]
             ELSE IF includes(categories, "botnet")
                 THEN [c EXCEPT !.threatType = "botnet", !.details.botnet = TRUE]
             ELSE IF includes(categories, "proxy")
                 THEN [c EXCEPT !.threatType = "proxy", !.details.proxy = TRUE]
             ELSE IF includes(categories, "tor exit node")
                 THEN [c EXCEPT !.threatType = "tor", !.details.tor = TRUE]
             ELSE [c EXCEPT !.threatType =
                      IF categories[1] # "" THEN replaceWhitespace(categories[1])
                      ELSE "unknown_category"]
    ELSE IF c.confidence > 0 /\ c.threatType = "none"
         THEN [c EXCEPT !.threatType = "generic_suspicious"]
         ELSE c

(* WithThreatData whose whitelist override leaves the reputation as computed. *)
WithThreatDataReputationKept(c, abuseIpDbData) ==
    LET confidence == OrZero(abuseIpDbData, "abuseConfidenceScore")
        scored ==
            IF OrFalse(abuseIpDbData, "isWhitelisted")
            THEN [c EXCEPT !.status = "safe", !.threatLevel = "low",
                           !.threatType = "whitelisted",
                           !.confidence = 0, !.reputation = 100 - confidence]
            ELSE [c EXCEPT !.status = ThresholdOf(confidence).status,
                           !.threatLevel = ThresholdOf(confidence).threatLevel,
                           !.confidence = confidence,
                           !.reputation = 100 - confidence]
        stored ==
            IF "categories" \in DOMAIN abuseIpDbData
            THEN [scored EXCEPT !.details.categories = abuseIpDbData.categories]
            ELSE scored
    IN  CategoryOf(stored)

(* Branch 2: threat data present. *)
WithThreatData(c, abuseIpDbData) ==
    LET confidence == OrZero(abuseIpDbData, "abuseConfidenceScore")
        scored ==
            IF OrFalse(abuseIpDbData, "isWhitelisted")
            THEN [c EXCEPT !.status = "safe", !.threatLevel = "low",
                           !.threatType = "whitelisted",
                           !.confidence = 0, !.reputation = 100]
            ELSE [c EXCEPT !.status = ThresholdOf(confidence).status,
                           !.threatLevel = ThresholdOf(confidence).threatLevel,
                           !.confidence = confidence,
                           !.reputation = 100 - confidence]
        stored ==
            IF "categories" \in DOMAIN abuseIpDbData
            THEN [scored EXCEPT !.details.categories = abuseIpDbData.categories]
            ELSE scored
        typed == CategoryOf(stored)
    IN  IF TimeField(abuseIpDbData, "lastReportedAt") # NullTime
        THEN [typed EXCEPT !.details =
                 [f \in DOMAIN typed.details \cup {"lastSeen"} |->
                     IF f = "lastSeen" THEN toISOString(abuseIpDbData.lastReportedAt)
                     ELSE typed.details[f]]]
        ELSE typed

(* WithoutThreatData that looks at the proxy flag only. *)
WithoutThreatDataProxyOnly(c, geoIpData) ==
    IF OrFalse(geoIpData, "proxy")
    THEN [c EXCEPT !.status = "suspicious", !.threatLevel = "medium",
                   !.threatType = "proxy", !.confidence = 50, !.reputation = 50]
    ELSE c

(* Branch 3: no threat data, the geo flags decide. *)
WithoutThreatData(c, geoIpData) ==
    IF OrFalse(geoIpData, "proxy") \/ OrFalse(geoIpData, "hosting")
    THEN [c EXCEPT !.status = "suspicious", !.threatLevel = "medium",
                   !.threatType = IF OrFalse(geoIpData, "proxy") THEN "proxy" ELSE "hosting",
                   !.confidence = 50, !.reputation = 50]
    ELSE c

(* new Date(x).toISOString() throws a RangeError on an Invalid Date. *)
deriveThrows(geoIpData, abuseIpDbData) ==
    /\ Field(geoIpData, "status") # "fail"
    /\ abuseIpDbData # NullRec
    /\ TimeField(abuseIpDbData, "lastReportedAt") = InvalidDate

(* deriveIPAnalysisResult that looks at the threat data before the geo status. *)
deriveIPAnalysisResultThreatFirst(ip, geoIpData, abuseIpDbData, now) ==
    LET c0 == [status |-> "safe", threatLevel |-> "low", threatType |-> "none",
               confidence |-> 0, reputation |-> 100, details |-> DetailsOf(geoIpData)]
        c  == IF abuseIpDbData # NullRec
              THEN WithThreatData(c0, abuseIpDbData)
              ELSE IF Field(geoIpData, "status") = "fail"
                   THEN [c0 EXCEPT !.status = "error", !.threatLevel = "unknown",
                                   !.threatType =
                                       IF Field(geoIpData, "message") \in {NULL, ""}
                                       THEN "Geo-IP API Error" ELSE geoIpData.message,
                                   !.confidence = 0, !.reputation = 0]
                   ELSE WithoutThreatData(c0, geoIpData)
    IN  [ip |-> ip,
         status |-> c.status,
         threatLevel |-> c.threatLevel,
         threatType |-> c.threatType,
         location |-> OrUnknown(geoIpData, "city") \o ", " \o OrUnknown(geoIpData, "country"),
         isp |-> OrUnknown(geoIpData, "isp"),
         confidence |-> c.confidence,
         details |-> c.details,
         lastSeen |-> toISOString(now),
         reputation |-> c.reputation]

deriveIPAnalysisResult(ip, geoIpData, abuseIpDbData, now) ==
    LET c0 == [status |-> "safe", threatLevel |-> "low", threatType |-> "none",
               confidence |-> 0, reputation |-> 100, details |-> DetailsOf(geoIpData)]
        c  == IF Field(geoIpData, "status") = "fail"
              THEN [c0 EXCEPT !.status = "error", !.threatLevel = "unknown",
                              !.threatType =
                                  IF Field(geoIpData, "message") \in {NULL, ""}
                                  THEN "Geo-IP API Error" ELSE geoIpData.message,
                              !.confidence = 0, !.reputation = 0]
              ELSE IF abuseIpDbData # NullRec
                   THEN WithThreatData(c0, abuseIpDbData)
                   ELSE WithoutThreatData(c0, geoIpData)
    IN  [ip |-> ip,
         status |-> c.status,
         threatLevel |-> c.threatLevel,
         threatType |-> c.threatType,
         location |-> OrUnknown(geoIpData, "city") \o ", " \o OrUnknown(geoIpData, "country"),
         isp |-> OrUnknown(geoIpData, "isp"),
         confidence |-> c.confidence,
         details |-> c.details,
         lastSeen |-> IF "lastSeen" \in DOMAIN c.details THEN c.details.lastSeen
                      ELSE IF TimeField(geoIpData, "query_time") # NullTime
                           THEN toISOString(geoIpData.query_time)
                           ELSE toISOString(now),
         reputation |-> c.reputation]

----------------------------------------------------------------------------
(* The geo collaborator *)

GeoOk(ip, proxy, hosting) ==
    [status |-> "success", country |-> "US", regionName |-> "Virginia",
     city |-> "Ashburn", isp |-> "ExampleNet", org |-> "ExampleOrg",
     timezone |-> "America/New_York", lat |-> "39.03", lon |-> "-77.5",
     query |-> ip, proxy |-> proxy, hosting |-> hosting]

GeoSparse(ip) ==
    [status |-> "success", country |-> "US", query |-> ip,
     proxy |-> FALSE, hosting |-> FALSE]

GeoFail(ip) == [status |-> "fail", message |-> "invalid query", query |-> ip]

(* What the HTTP exchange with ip-api.com can give: an exception or a JSON body. *)
(* The first IP gets every kind of answer, the second a failure or a plain one. *)
GeoBodies(ip) ==
    IF ip = "1.2.3.4"
    THEN {GeoFail(ip), GeoOk(ip, FALSE, FALSE), GeoOk(ip, TRUE, FALSE), GeoOk(ip, FALSE, TRUE)}
    ELSE {GeoFail(ip), GeoSparse(ip)}

GeoOutcomes ==
    {[kind |-> "exception"]}
    \cup {[kind |-> "json", body |-> b] : b \in UNION {GeoBodies(ip) : ip \in IPs}}

GeoGave(geoIpData) ==
    IF geoIpData = NullRec THEN "null" ELSE Field(geoIpData, "status")

fetchGeoIpData(outcome) ==
    IF outcome.kind = "exception" THEN NullRec ELSE outcome.body

----------------------------------------------------------------------------
(* The threat collaborator *)

Report(names) == [categories |-> [i \in DOMAIN names |-> [categoryName |-> names[i]]]]

AbuseData ==
    {[abuseConfidenceScore |-> 95, totalReports |-> 2, isWhitelisted |-> FALSE,
      lastReportedAt |-> 0,
      reports |-> <<Report(<<"Spam">>), Report(<<"Malware">>)>>],
     [abuseConfidenceScore |-> 80, totalReports |-> 0, isWhitelisted |-> TRUE,
      reports |-> <<>>],
     [abuseConfidenceScore |-> 95, totalReports |-> 1, isWhitelisted |-> FALSE,
      lastReportedAt |-> InvalidDate,
      reports |-> <<Report(<<"Malware">>)>>],
     [abuseConfidenceScore |-> 0, totalReports |-> 1, isWhitelisted |-> FALSE,
      lastReportedAt |-> 0,
      reports |-> <<Report(<<"Port Scan">>)>>]}

(* What the HTTP exchange with AbuseIPDB can give. *)
ThreatOutcomes ==
    {[kind |-> "exception"],
     [kind |-> "http", status |-> 500, ok |-> FALSE],
     [kind |-> "http", status |-> 200, ok |-> TRUE, data |-> NullRec]}
    \cup {[kind |-> "http", status |-> 200, ok |-> TRUE, data |-> d] : d \in AbuseData}

(* The second IP is unknown to the threat service. *)
ThreatOutcomesFor(ip) ==
    IF ip = "1.2.3.4" THEN ThreatOutcomes
    ELSE {o \in ThreatOutcomes : o.kind = "exception" \/ ~o.ok \/ o.data = NullRec}

RateLimited == {[kind |-> "http", status |-> 429, ok |-> FALSE, retryAfter |-> h] :
                  h \in {NULL, "30"}}

parseInt(h) == CASE h = "60" -> 60 [] h = "30" -> 30

waitTimeOf(outcome) ==
    LET retryAfter == IF outcome.retryAfter = NULL THEN "60" ELSE outcome.retryAfter
    IN  (parseInt(retryAfter) + 5) * 1000

RECURSIVE flat(_)
flat(lists) == IF lists = <<>> THEN <<>> ELSE Head(lists) \o flat(Tail(lists))

categoriesOf(abuseData) ==
    IF "reports" \in DOMAIN abuseData
    THEN LET perReport == [i \in DOMAIN abuseData.reports |-> abuseData.reports[i].categories]
             named == SelectSeq(flat(perReport), LAMBDA cat : "categoryName" \in DOMAIN cat)
         IN  [i \in DOMAIN named |-> named[i].categoryName]
    ELSE <<>>

ThreatGave(abuseIpDbData) == IF abuseIpDbData = NullRec THEN "nodata" ELSE "data"

(* The value fetchAbuseIPDBThreatIntelligence returns for an answer that is not 429. *)
threatIntelligenceOf(outcome) ==
    IF outcome.kind = "exception" THEN NullRec
    ELSE IF ~outcome.ok THEN NullRec
    ELSE IF outcome.data = NullRec THEN NullRec
    ELSE [source |-> "AbuseIPDB",
          abuseConfidenceScore |-> outcome.data.abuseConfidenceScore,
          totalReports |-> outcome.data.totalReports,
          categories |-> categoriesOf(outcome.data),
          lastReportedAt |-> TimeField(outcome.data, "lastReportedAt"),
          isWhitelisted |-> outcome.data.isWhitelisted]

----------------------------------------------------------------------------
(* The cache table ip_cache *)

RowsOf(c, ip) == {row \in c : row.ip_address = ip}

CachedIPs(c) == {row.ip_address : row \in c}

(* RowValues that stores the classifier's initial values, not its verdict. *)
RowValuesUnclassified(ip, geoIpData, analysisResult) ==
    [ip_address |-> ip,
     country |-> Field(geoIpData, "country"),
     region |-> Field(geoIpData, "regionName"),
     city |-> Field(geoIpData, "city"),
     isp |-> Field(geoIpData, "isp"),
     org |-> Field(geoIpData, "org"),
     timezone |-> Field(geoIpData, "timezone"),
     lat |-> Field(geoIpData, "lat"),
     lon |-> Field(geoIpData, "lon"),
     status |-> "safe",
     threat_level |-> "low",
     threat_type |-> "none",
     confidence |-> 0,
     details |-> analysisResult.details,
     last_seen |-> parseTimestamp(analysisResult.lastSeen),
     reputation |-> 100]

(* The column values the statement passes as $1..$16. *)
RowValues(ip, geoIpData, analysisResult) ==
    [ip_address |-> ip,
     country |-> Field(geoIpData, "country"),
     region |-> Field(geoIpData, "regionName"),
     city |-> Field(geoIpData, "city"),
     isp |-> Field(geoIpData, "isp"),
     org |-> Field(geoIpData, "org"),
     timezone |-> Field(geoIpData, "timezone"),
     lat |-> Field(geoIpData, "lat"),
     lon |-> Field(geoIpData, "lon"),
     status |-> analysisResult.status,
     threat_level |-> analysisResult.threatLevel,
     threat_type |-> analysisResult.threatType,
     confidence |-> analysisResult.confidence,
     details |-> analysisResult.details,
     last_seen |-> parseTimestamp(analysisResult.lastSeen),
     reputation |-> analysisResult.reputation]

WithTimestamps(values, queryTime, threatCachedAt) ==
    [f \in DOMAIN values \cup {"query_time", "threat_cached_at"} |->
        CASE f = "query_time" -> queryTime
          [] f = "threat_cached_at" -> threatCachedAt
          [] OTHER -> values[f]]

(* INSERT: the statement names neither timestamp column, the table's default fills them. *)
InsertRow(c, values, now, dflt) ==
    LET t == IF dflt = "now" THEN now ELSE NullTime
    IN  c \cup {WithTimestamps(values, t, t)}

(* UpdateRow that leaves threat_cached_at as it was. *)
UpdateRowKeepingThreatStamp(c, values, now) ==
    {IF row.ip_address = values.ip_address
     THEN WithTimestamps(values, now, row.threat_cached_at) ELSE row : row \in c}

(* UpdateRow whose SET list leaves out the columns of the verdict. *)
UpdateRowKeepingVerdict(c, values, now) ==
    {IF row.ip_address = values.ip_address
     THEN WithTimestamps([values EXCEPT !.status = row.status,
                                        !.threat_level = row.threat_level,
                                        !.threat_type = row.threat_type,
                                        !.confidence = row.confidence,
                                        !.reputation = row.reputation], now, now)
     ELSE row : row \in c}

(* ON CONFLICT (ip_address) DO UPDATE SET ..., both timestamps = CURRENT_TIMESTAMP. *)
UpdateRow(c, values, now) ==
    {IF row.ip_address = values.ip_address THEN WithTimestamps(values, now, now) ELSE row :
        row \in c}

(* Upsert without the ON CONFLICT clause and without a unique key. *)
UpsertAlwaysInserting(c, values, now, dflt) == InsertRow(c, values, now, dflt)

Upsert(c, values, now, dflt) ==
    IF RowsOf(c, values.ip_address) # {}
    THEN UpdateRow(c, values, now)
    ELSE InsertRow(c, values, now, dflt)

----------------------------------------------------------------------------
(* The handler of POST /api/analyze-ips *)

IdleReq ==
    [pc |-> "idle", body |-> NullRec, ipAddresses |-> <<>>, idx |-> 0, results |-> <<>>,
     cachedData |-> NullRec, geoIpData |-> NullRec, abuseIpDbData |-> NullRec,
     shouldFetchGeoIp |-> TRUE, shouldFetchThreat |-> TRUE,
     analysisResult |-> NullRec,
     calls |-> <<>>,        \* history: collaborator calls made for the current IP
     emitted |-> <<>>,      \* history: results pushed for the current IP
     waitTime |-> 0,        \* the last 429 back-off of the current IP
     answer |-> NullRec,    \* history: the last answer of the threat service for the current IP
     exit |-> "none",       \* how the previous iteration of the loop ended
     response |-> NullRec]

CurrentIp(s) == s.ipAddresses[s.idx]

ErrorResult(ip, threatType) ==
    [ip |-> ip, status |-> "error", threatLevel |-> "unknown", threatType |-> threatType,
     location |-> "Unknown", isp |-> "Unknown", confidence |-> 0,
     details |-> [malware |-> FALSE, phishing |-> FALSE, spam |-> FALSE,
                  botnet |-> FALSE, proxy |-> FALSE, tor |-> FALSE],
     lastSeen |-> NullRec, reputation |-> 0]

(* CachedGeoIpData that does not read the stored details. *)
CachedGeoIpDataWithoutDetails(ip, cachedData) ==
    [status |-> "success",
     country |-> cachedData.country,
     regionName |-> cachedData.region,
     city |-> cachedData.city,
     isp |-> cachedData.isp,
     org |-> cachedData.org,
     timezone |-> cachedData.timezone,
     lat |-> cachedData.lat,
     lon |-> cachedData.lon,
     proxy |-> FALSE,
     hosting |-> FALSE,
     query |-> ip,
     query_time |-> cachedData.query_time]

(* geoIpData rebuilt from a cache row. *)
CachedGeoIpData(ip, cachedData) ==
    [status |-> "success",
     country |-> cachedData.country,
     regionName |-> cachedData.region,
     city |-> cachedData.city,
     isp |-> cachedData.isp,
     org |-> cachedData.org,
     timezone |-> cachedData.timezone,
     lat |-> cachedData.lat,
     lon |-> cachedData.lon,
     proxy |-> IF cachedData.details # NullRec THEN OrFalse(cachedData.details, "proxy") ELSE FALSE,
     hosting |-> FALSE,
     query |-> IF cachedData.details # NullRec
               THEN (IF OrFalse(cachedData.details, "tor") THEN "Tor" ELSE ip)
               ELSE ip,
     query_time |-> cachedData.query_time]

(* abuseIpDbData rebuilt from a cache row. *)
CachedAbuseIpDbData(cachedData) ==
    [source |-> "Cached",
     abuseConfidenceScore |-> cachedData.confidence,
     categories |-> IF cachedData.details # NullRec THEN cachedData.details.categories ELSE <<>>,
     lastReportedAt |-> cachedData.last_seen,
     isWhitelisted |-> cachedData.threat_type = "whitelisted"]

threatCacheAgeMs(cachedData, now) ==
    now - (IF cachedData.threat_cached_at = NullTime THEN 0 ELSE cachedData.threat_cached_at)

(* ThreatIsFresh with the window closed one instant late. *)
ThreatIsFreshInclusive(cachedData, now) ==
    /\ cachedData.threat_cached_at # NullTime
    /\ threatCacheAgeMs(cachedData, now) <= TWENTY_FOUR_HOURS_MS

ThreatIsFresh(cachedData, now) ==
    /\ cachedData.threat_cached_at # NullTime
    /\ threatCacheAgeMs(cachedData, now) < TWENTY_FOUR_HOURS_MS

(* The end of one iteration: the next IP, or res.json(results) after the last. *)
EndOfIteration(s) ==
    LET t == [s EXCEPT !.cachedData = NullRec, !.geoIpData = NullRec,
                       !.abuseIpDbData = NullRec, !.shouldFetchGeoIp = TRUE,
                       !.shouldFetchThreat = TRUE, !.analysisResult = NullRec,
                       !.waitTime = 0, !.answer = NullRec]
    IN  IF s.idx = Len(s.ipAddresses)
        THEN [t EXCEPT !.pc = "done", !.response = [status |-> 200, body |-> s.results]]
        ELSE [t EXCEPT !.pc = "read", !.idx = @ + 1]

(* The catch block. *)
Caught(s) ==
    LET result == ErrorResult(CurrentIp(s), "Backend processing error")
    IN  EndOfIteration([s EXCEPT !.results = Append(@, result),
                                 !.emitted = Append(@, result),
                                 !.exit = "caught"])

(* Classify treating a threat lookup without data as a failure of the IP. *)
ClassifyNeedsThreatData(s, now) ==
    IF deriveThrows(s.geoIpData, s.abuseIpDbData) \/ s.abuseIpDbData = NullRec
    THEN Caught(s)
    ELSE LET analysisResult == deriveIPAnalysisResult(CurrentIp(s), s.geoIpData, s.abuseIpDbData, now)
         IN  [s EXCEPT !.analysisResult = analysisResult,
                       !.results = Append(@, analysisResult),
                       !.emitted = Append(@, analysisResult),
                       !.pc = "write"]

(* Classify that issues the INSERT without awaiting it and goes on. *)
ClassifyWithoutAwaitingWrite(s, now) ==
    IF deriveThrows(s.geoIpData, s.abuseIpDbData)
    THEN Caught(s)
    ELSE LET analysisResult == deriveIPAnalysisResult(CurrentIp(s), s.geoIpData, s.abuseIpDbData, now)
         IN  EndOfIteration([s EXCEPT !.analysisResult = analysisResult,
                                      !.results = Append(@, analysisResult),
                                      !.emitted = Append(@, analysisResult)])

(* deriveIPAnalysisResult, results.push, and the INSERT is issued. *)
Classify(s, now) ==
    IF deriveThrows(s.geoIpData, s.abuseIpDbData)
    THEN Caught(s)
    ELSE LET analysisResult == deriveIPAnalysisResult(CurrentIp(s), s.geoIpData, s.abuseIpDbData, now)
         IN  [s EXCEPT !.analysisResult = analysisResult,
                       !.results = Append(@, analysisResult),
                       !.emitted = Append(@, analysisResult),
                       !.pc = "write"]

AfterFetches(s, now) ==
    IF s.shouldFetchThreat THEN [s EXCEPT !.pc = "threat"] ELSE Classify(s, now)

(* AfterGeoFetch without the test of the answer's status. *)
AfterGeoFetchNullOnly(s, now) ==
    LET result == ErrorResult(CurrentIp(s), "Geo-IP API error")
    IN  IF s.geoIpData = NullRec
        THEN EndOfIteration([s EXCEPT !.results = Append(@, result),
                                      !.emitted = Append(@, result),
                                      !.exit = "continue"])
        ELSE AfterFetches(s, now)

(* The geo answer is in: the failure branch, or on to the threat lookup. *)
AfterGeoFetch(s, now) ==
    LET geoIpData == s.geoIpData
        result == ErrorResult(CurrentIp(s),
                      IF geoIpData # NullRec /\ Field(geoIpData, "message") \notin {NULL, ""}
                      THEN geoIpData.message ELSE "Geo-IP API error")
    IN  IF geoIpData = NullRec \/ Field(geoIpData, "status") = "fail"
        THEN EndOfIteration([s EXCEPT !.results = Append(@, result),
                                      !.emitted = Append(@, result),
                                      !.exit = "continue"])
        ELSE AfterFetches(s, now)

(* AfterCacheRead that looks up the geo data again on a cache hit. *)
AfterCacheReadRefetchingGeo(s, rows, now) ==
    LET ip == CurrentIp(s)
        fresh == [s EXCEPT !.cachedData = NullRec, !.geoIpData = NullRec,
                           !.abuseIpDbData = NullRec, !.shouldFetchGeoIp = TRUE,
                           !.shouldFetchThreat = TRUE, !.analysisResult = NullRec,
                           !.calls = <<>>, !.emitted = <<>>, !.waitTime = 0, !.answer = NullRec,
                           !.exit = "none"]
    IN  IF rows # {}
        THEN LET cachedData == CHOOSE row \in rows : TRUE
                 hit == [fresh EXCEPT !.cachedData = cachedData,
                                      !.geoIpData = CachedGeoIpData(ip, cachedData)]
             IN  IF ThreatIsFresh(cachedData, now)
                 THEN [hit EXCEPT !.abuseIpDbData = CachedAbuseIpDbData(cachedData),
                                  !.shouldFetchThreat = FALSE]
                 ELSE hit
        ELSE fresh

(* The locals of an iteration after the SELECT has returned rows. *)
AfterCacheRead(s, rows, now) ==
    LET ip == CurrentIp(s)
        fresh == [s EXCEPT !.cachedData = NullRec, !.geoIpData = NullRec,
                           !.abuseIpDbData = NullRec, !.shouldFetchGeoIp = TRUE,
                           !.shouldFetchThreat = TRUE, !.analysisResult = NullRec,
                           !.calls = <<>>, !.emitted = <<>>, !.waitTime = 0, !.answer = NullRec,
                           !.exit = "none"]
    IN  IF rows # {}
        THEN LET cachedData == CHOOSE row \in rows : TRUE
                 hit == [fresh EXCEPT !.cachedData = cachedData,
                                      !.geoIpData = CachedGeoIpData(ip, cachedData),
                                      !.shouldFetchGeoIp = FALSE]
             IN  IF ThreatIsFresh(cachedData, now)
                 THEN [hit EXCEPT !.abuseIpDbData = CachedAbuseIpDbData(cachedData),
                                  !.shouldFetchThreat = FALSE]
                 ELSE hit
        ELSE fresh

(* IsValidBody without the test for an empty array. *)
IsValidBodyAnyArray(body) == body.kind = "array"

(* The negation of the test that answers 400. *)
IsValidBody(body) == body.kind = "array" /\ Len(body.ipAddresses) # 0

(* const results = []; and the for loop is entered. *)
StartLoop(s) ==
    IF Len(s.ipAddresses) = 0
    THEN [s EXCEPT !.pc = "done", !.response = [status |-> 200, body |-> <<>>]]
    ELSE [s EXCEPT !.pc = "read", !.idx = 1]

Receive(r, body) ==
    /\ req[r].pc = "idle"
    /\ req' = [req EXCEPT ![r] =
                 IF ~IsValidBody(body)
                 THEN [IdleReq EXCEPT !.pc = "done", !.body = body,
                                      !.response = [status |-> 400,
                                                    body |-> [error |-> "Please provide an array of IP addresses."]]]
                 ELSE StartLoop([IdleReq EXCEPT !.body = body, !.ipAddresses = body.ipAddresses])]
    /\ UNCHANGED <<cache, clock, ticks, columnDefault, apiKeySet, threatStoredAt, probe, ui>>

CacheRead(r) ==
    /\ req[r].pc = "read"
    /\ LET s == AfterCacheRead(req[r], RowsOf(cache, CurrentIp(req[r])), clock)
       IN  req' = [req EXCEPT ![r] =
                     IF s.shouldFetchGeoIp THEN [s EXCEPT !.pc = "geo"] ELSE AfterFetches(s, clock)]
    /\ UNCHANGED <<cache, clock, ticks, columnDefault, apiKeySet, threatStoredAt, probe, ui>>

CacheReadFails(r) ==
    /\ req[r].pc = "read"
    /\ req' = [req EXCEPT ![r] =
                 Caught([req[r] EXCEPT !.cachedData = NullRec, !.geoIpData = NullRec,
                                       !.abuseIpDbData = NullRec, !.shouldFetchGeoIp = TRUE,
                                       !.shouldFetchThreat = TRUE, !.analysisResult = NullRec,
                                       !.calls = <<>>, !.emitted = <<>>, !.waitTime = 0, !.answer = NullRec])]
    /\ UNCHANGED <<cache, clock, ticks, columnDefault, apiKeySet, threatStoredAt, probe, ui>>

GeoFetch(r, outcome) ==
    /\ req[r].pc = "geo"
    /\ outcome.kind = "json" => outcome.body.query = CurrentIp(req[r])
    /\ LET geoIpData == fetchGeoIpData(outcome)
           s == [req[r] EXCEPT !.geoIpData = geoIpData,
                               !.calls = Append(@, [to |-> "geo", gave |-> GeoGave(geoIpData)])]
       IN  req' = [req EXCEPT ![r] = AfterGeoFetch(s, clock)]
    /\ UNCHANGED <<cache, clock, ticks, columnDefault, apiKeySet, threatStoredAt, probe, ui>>

Attempts(s) == Cardinality({i \in DOMAIN s.calls : s.calls[i].to = "threat"})

(* The threat collaborator was called for the current IP and has answered. *)
ThreatCalled(s) ==
    \E i \in DOMAIN s.calls : s.calls[i].to = "threat" /\ s.calls[i].gave # "429"

(* What the history keeps of the last answer of the threat service. *)
AnswerOf(outcome) ==
    [kind |-> IF outcome.kind = "exception" THEN "exception"
              ELSE IF outcome.status = 429 THEN "429"
              ELSE IF ~outcome.ok THEN "not ok"
              ELSE "ok",
     retryAfter |-> Field(outcome, "retryAfter")]

(* ThreatRateLimited that gives up: the 429 is returned as no data. *)
ThreatRateLimitedGivesUp(r, outcome) ==
    /\ req[r].pc = "threat"
    /\ apiKeySet
    /\ Attempts(req[r]) < MaxAttempts
    /\ LET s == [req[r] EXCEPT !.abuseIpDbData = NullRec,
                               !.calls = Append(@, [to |-> "threat", gave |-> "429"]),
                               !.answer = AnswerOf(outcome),
                               !.waitTime = waitTimeOf(outcome)]
       IN  req' = [req EXCEPT ![r] = Classify(s, clock)]
    /\ UNCHANGED <<cache, clock, ticks, columnDefault, apiKeySet, threatStoredAt, probe, ui>>

(* fetchAbuseIPDBThreatIntelligence answered 429: wait, then ask again. *)
ThreatRateLimited(r, outcome) ==
    /\ req[r].pc = "threat"
    /\ apiKeySet
    /\ Attempts(req[r]) < MaxAttempts
    /\ req' = [req EXCEPT ![r].calls = Append(@, [to |-> "threat", gave |-> "429"]),
                          ![r].answer = AnswerOf(outcome),
                          ![r].waitTime = waitTimeOf(outcome)]
    /\ UNCHANGED <<cache, clock, ticks, columnDefault, apiKeySet, threatStoredAt, probe, ui>>

(* A 429 answer past the attempts the model counts: the lookup waits and asks *)
(* again all the same, the recursion has no limit.                           *)
ThreatRateLimitedAgain(r, outcome) ==
    /\ req[r].pc = "threat"
    /\ apiKeySet
    /\ Attempts(req[r]) >= MaxAttempts
    /\ req' = [req EXCEPT ![r].answer = AnswerOf(outcome),
                          ![r].waitTime = waitTimeOf(outcome)]
    /\ UNCHANGED <<cache, clock, ticks, columnDefault, apiKeySet, threatStoredAt, probe, ui>>

(* fetchAbuseIPDBThreatIntelligence returns: without a key at once, else after the answer. *)
ThreatFetch(r, outcome) ==
    /\ req[r].pc = "threat"
    /\ outcome \in ThreatOutcomesFor(CurrentIp(req[r]))
    /\ LET s == IF apiKeySet
                THEN [req[r] EXCEPT !.abuseIpDbData = threatIntelligenceOf(outcome),
                                    !.answer = AnswerOf(outcome),
                                    !.calls = Append(@, [to |-> "threat",
                                                         gave |-> ThreatGave(threatIntelligenceOf(outcome))])]
                ELSE [req[r] EXCEPT !.abuseIpDbData = NullRec]
       IN  req' = [req EXCEPT ![r] = Classify(s, clock)]
    /\ UNCHANGED <<cache, clock, ticks, columnDefault, apiKeySet, threatStoredAt, probe, ui>>

(* CacheWrite as a check-then-act on the rows the SELECT returned earlier. *)
CacheWriteBySnapshot(r) ==
    /\ req[r].pc = "write"
    /\ LET s == req[r]
           ip == CurrentIp(s)
           values == RowValues(ip, s.geoIpData, s.analysisResult)
       IN  /\ cache' = IF s.cachedData # NullRec
                       THEN UpdateRow(cache, values, clock)
                       ELSE InsertRow(cache, values, clock, columnDefault)
           /\ req' = [req EXCEPT ![r] = EndOfIteration([s EXCEPT !.exit = "written"])]
           /\ threatStoredAt' =
                 IF ThreatCalled(s)
                 THEN [threatStoredAt EXCEPT ![ip] = clock]
                 ELSE threatStoredAt
    /\ UNCHANGED <<clock, ticks, columnDefault, apiKeySet, probe, ui>>

CacheWrite(r) ==
    /\ req[r].pc = "write"
    /\ LET s == req[r]
           ip == CurrentIp(s)
       IN  /\ cache' = Upsert(cache, RowValues(ip, s.geoIpData, s.analysisResult), clock, columnDefault)
           /\ req' = [req EXCEPT ![r] = EndOfIteration([s EXCEPT !.exit = "written"])]
           /\ threatStoredAt' =
                 IF ThreatCalled(s)
                 THEN [threatStoredAt EXCEPT ![ip] = clock]
                 ELSE threatStoredAt
    /\ UNCHANGED <<clock, ticks, columnDefault, apiKeySet, probe, ui>>

CacheWriteFails(r) ==
    /\ req[r].pc = "write"
    /\ req' = [req EXCEPT ![r] = Caught(req[r])]
    /\ UNCHANGED <<cache, clock, ticks, columnDefault, apiKeySet, threatStoredAt, probe, ui>>

(* The response has been sent; the handler is free for the next request. *)
Finish(r) ==
    /\ req[r].pc = "done"
    /\ req' = [req EXCEPT ![r] = IdleReq]
    /\ UNCHANGED <<cache, clock, ticks, columnDefault, apiKeySet, threatStoredAt, probe, ui>>

Tick(d) ==
    /\ ticks < MaxTicks
    /\ \A r \in Reqs : req[r].pc = "idle"
    /\ clock' = clock + d
    /\ ticks' = ticks + 1
    /\ UNCHANGED <<cache, columnDefault, apiKeySet, req, threatStoredAt, probe, ui>>

----------------------------------------------------------------------------
(* The front end: App (App.tsx) *)

(* A line of the uploaded file is a sequence of characters. *)
Digits == {"0", "1", "2", "3", "4", "5", "6", "7", "8", "9"}

Whitespace == {" ", "\t", "\r"}

RECURSIVE trimStart(_)
trimStart(line) ==
    IF line # <<>> /\ Head(line) \in Whitespace THEN trimStart(Tail(line)) ELSE line

RECURSIVE trimEnd(_)
trimEnd(line) ==
    IF line # <<>> /\ line[Len(line)] \in Whitespace
    THEN trimEnd(SubSeq(line, 1, Len(line) - 1))
    ELSE line

trim(line) == trimEnd(trimStart(line))

(* The parts of a line between its dots. *)
RECURSIVE SplitOnDots(_)
SplitOnDots(line) ==
    IF \E i \in DOMAIN line : line[i] = "."
    THEN LET i == CHOOSE j \in DOMAIN line :
                      line[j] = "." /\ \A k \in 1..(j - 1) : line[k] # "."
         IN  <<SubSeq(line, 1, i - 1)>> \o SplitOnDots(SubSeq(line, i + 1, Len(line)))
    ELSE <<line>>

(* IsOctet that takes any one to three digits. *)
IsOctetAnyDigits(o) == Len(o) \in 1..3 /\ \A i \in DOMAIN o : o[i] \in Digits

(* 25[0-5] | 2[0-4][0-9] | [01]?[0-9][0-9]? *)
IsOctet(o) ==
    /\ Len(o) \in 1..3
    /\ \A i \in DOMAIN o : o[i] \in Digits
    /\ Len(o) = 3 =>
          \/ o[1] \in {"0", "1"}
          \/ o[1] = "2" /\ o[2] \in {"0", "1", "2", "3", "4"}
          \/ o[1] = "2" /\ o[2] = "5" /\ o[3] \in {"0", "1", "2", "3", "4", "5"}

(* /^(octet\.){3}octet$/.test(line) *)
IsIPv4(line) ==
    LET parts == SplitOnDots(line)
    IN  Len(parts) = 4 /\ \A i \in DOMAIN parts : IsOctet(parts[i])

(* text.split('\n').map(trim).filter(line => line && regex.test(line)) *)
ExtractIPs(lines) ==
    LET trimmed == [i \in DOMAIN lines |-> trim(lines[i])]
    IN  SelectSeq(trimmed, LAMBDA line : line # <<>> /\ IsIPv4(line))

(* Lines a file may hold. *)
SampleLines ==
    {<<>>,
     <<"1", ".", "2", ".", "3", ".", "4">>,
     <<"5", ".", "6", ".", "7", ".", "8", "\r">>,
     <<" ", "2", "5", "5", ".", "0", ".", "0", ".", "1", " ">>,
     <<"0", "1", ".", "2", ".", "3", ".", "0", "0", "4">>,
     <<"2", "5", "6", ".", "0", ".", "0", ".", "1">>,
     <<"1", ".", "2", ".", "3">>}

(* file.text().split('\n') gives at least one line, an empty one for an empty file. *)
Files == SeqsUpTo(SampleLines, MaxLines) \ {<<>>}

NoValidIPs == "No valid IPv4 addresses found in the file. Please ensure IPs are one per line."

(* What the fetch of /api/analyze-ips can give for the addresses sent: a        *)
(* rejection, a non-OK response (with an error body, a body without an error    *)
(* field, or a body that is not JSON), or the backend's 200 with its results,   *)
(* at least one per address.                                                    *)
BackendAnswers(ipAddresses) ==
    {[kind |-> "rejected", message |-> "Failed to fetch"]}
    \cup {[kind |-> "http", ok |-> FALSE, statusText |-> "Bad Request", parses |-> TRUE,
           json |-> [error |-> "Please provide an array of IP addresses."]],
          [kind |-> "http", ok |-> FALSE, statusText |-> "Internal Server Error", parses |-> TRUE,
           json |-> [message |-> "unavailable"]],
          [kind |-> "http", ok |-> FALSE, statusText |-> "Payload Too Large", parses |-> FALSE,
           json |-> NullRec]}
    \cup {[kind |-> "http", ok |-> TRUE, statusText |-> "OK", parses |-> TRUE,
           json |-> [i \in DOMAIN ipAddresses |-> [ip |-> ipAddresses[i], status |-> st]]] :
             st \in {"safe", "malicious", "error"}}

(* useState(false), useState([]), useState(null); no upload is running. *)
IdleUi ==
    [isProcessing |-> FALSE, results |-> <<>>, error |-> NULL,
     pc |-> "idle", lines |-> <<>>, ipAddresses |-> <<>>,
     sent |-> FALSE]         \* history: the current upload has sent its backend request

(* The four blocks of the main content and the condition each is rendered under. *)
Shown(u) ==
    {view \in {"upload form", "processing", "error panel", "results"} :
        CASE view = "upload form" -> ~u.isProcessing /\ Len(u.results) = 0 /\ u.error \in {NULL, ""}
          [] view = "processing" -> u.isProcessing
          [] view = "error panel" -> u.error \notin {NULL, ""}
          [] view = "results" -> Len(u.results) > 0 /\ ~u.isProcessing}

(* catch and finally of handleFileUpload. *)
Failed(u, message) ==
    [u EXCEPT !.error = message, !.isProcessing = FALSE, !.pc = "idle"]

(* StartUpload that leaves the previous results in place. *)
StartUploadKeepingResults(lines) ==
    /\ ui.pc = "idle"
    /\ Shown(ui) \cap {"upload form", "results"} # {}
    /\ ui' = [ui EXCEPT !.isProcessing = TRUE, !.error = NULL,
                        !.pc = "reading", !.lines = lines, !.ipAddresses = <<>>,
                        !.sent = FALSE]
    /\ UNCHANGED <<cache, clock, ticks, columnDefault, apiKeySet, req, threatStoredAt, probe>>

(* FileUpload or ResultsDisplay hands a file to handleFileUpload: up to file.text(). *)
StartUpload(lines) ==
    /\ ui.pc = "idle"
    /\ Shown(ui) \cap {"upload form", "results"} # {}
    /\ ui' = [ui EXCEPT !.isProcessing = TRUE, !.error = NULL, !.results = <<>>,
                        !.pc = "reading", !.lines = lines, !.ipAddresses = <<>>,
                        !.sent = FALSE]
    /\ UNCHANGED <<cache, clock, ticks, columnDefault, apiKeySet, req, threatStoredAt, probe>>

(* file.text() resolved: the addresses are extracted and, if there are any, posted. *)
FileRead ==
    /\ ui.pc = "reading"
    /\ LET ipAddresses == ExtractIPs(ui.lines)
       IN  ui' = IF Len(ipAddresses) = 0
                 THEN Failed(ui, NoValidIPs)
                 ELSE [ui EXCEPT !.ipAddresses = ipAddresses, !.pc = "fetching", !.sent = TRUE]
    /\ UNCHANGED <<cache, clock, ticks, columnDefault, apiKeySet, req, threatStoredAt, probe>>

(* file.text() rejected. *)
FileReadFails ==
    /\ ui.pc = "reading"
    /\ ui' = Failed(ui, "The requested file could not be read")
    /\ UNCHANGED <<cache, clock, ticks, columnDefault, apiKeySet, req, threatStoredAt, probe>>

(* The fetch settled: the rest of handleFileUpload. *)
BackendAnswered(answer) ==
    /\ ui.pc = "fetching"
    /\ answer \in BackendAnswers(ui.ipAddresses)
    /\ ui' = IF answer.kind = "rejected"
             THEN Failed(ui, answer.message)
             ELSE IF ~answer.ok /\ ~answer.parses
             THEN Failed(ui, "Unexpected token < in JSON at position 0")
             ELSE IF ~answer.ok
             THEN Failed(ui, IF Field(answer.json, "error") \notin {NULL, ""}
                             THEN answer.json.error
                             ELSE "Backend error: " \o answer.statusText)
             ELSE [ui EXCEPT !.results = answer.json, !.isProcessing = FALSE, !.pc = "idle"]
    /\ UNCHANGED <<cache, clock, ticks, columnDefault, apiKeySet, req, threatStoredAt, probe>>

(* The button of the error panel. *)
TryAgain ==
    /\ "error panel" \in Shown(ui)
    /\ ui' = [ui EXCEPT !.error = NULL, !.results = <<>>]
    /\ UNCHANGED <<cache, clock, ticks, columnDefault, apiKeySet, req, threatStoredAt, probe>>

Init ==
    /\ cache = {}
    /\ clock = 0
    /\ ticks = 0
    /\ columnDefault \in {"now", "null"}
    /\ apiKeySet \in BOOLEAN
    /\ req = [r \in Reqs |-> IdleReq]
    /\ threatStoredAt = [ip \in IPs |-> NullTime]
    /\ probe = NullRec
    /\ ui = IdleUi

(* What handler r does once it has a request. *)
Handle(r) ==
    \/ CacheRead(r)
    \/ CacheReadFails(r)
    \/ \E outcome \in GeoOutcomes : GeoFetch(r, outcome)
    \/ \E outcome \in RateLimited : ThreatRateLimited(r, outcome)
    \/ \E outcome \in ThreatOutcomes : ThreatFetch(r, outcome)
    \/ CacheWrite(r)
    \/ CacheWriteFails(r)
    \/ Finish(r)

(* Batches over both addresses, served one at a time by handler 1 within one instant. *)
Next ==
    \/ \E body \in Bodies : Receive(1, body)
    \/ Handle(1)

Spec == Init /\ [][Next]_vars

(* One address analysed again and again while time passes between the requests. *)
NextAging ==
    \/ \E body \in AgingBodies : Receive(1, body)
    \/ Handle(1)
    \/ \E d \in TickSteps : Tick(d)

SpecAging == Init /\ [][NextAging]_vars

(* Two requests for the same address in flight at once: the handler is an async *)
(* function, so between two awaits of one invocation the other may run.        *)
NextConcurrent ==
    \E r \in Reqs :
        \/ \E body \in AgingBodies : Receive(r, body)
        \/ Handle(r)

SpecConcurrent == Init /\ [][NextConcurrent]_vars

(* Two requests of one address each in flight at once, for the same address or *)
(* for different ones. Every step of the handler is there, the failing SELECT   *)
(* and the failing INSERT included, but for the 429 answer: the threat service  *)
(* of this specification does not rate-limit.                                   *)
WriterBodies == BodiesOver({<<ip>> : ip \in IPs})

NextWriters ==
    \E r \in Reqs :
        \/ \E body \in WriterBodies : Receive(r, body)
        \/ CacheRead(r)
        \/ CacheReadFails(r)
        \/ \E outcome \in GeoOutcomes : GeoFetch(r, outcome)
        \/ \E outcome \in ThreatOutcomes : ThreatFetch(r, outcome)
        \/ CacheWrite(r)
        \/ CacheWriteFails(r)
        \/ Finish(r)

SpecWriters == Init /\ [][NextWriters]_vars

(* One request at a time, every pending await eventually settling, and a threat *)
(* service free to answer 429 as often as it likes.                            *)
HandleLive(r) ==
    \/ Handle(r)
    \/ \E outcome \in RateLimited : ThreatRateLimitedAgain(r, outcome)

NextLive ==
    \/ \E body \in AgingBodies : Receive(1, body)
    \/ HandleLive(1)

SpecLive == Init /\ [][NextLive]_vars /\ WF_vars(HandleLive(1))

(* deriveIPAnalysisResult called on its own, on geo answers of every kind and  *)
(* on threat data of every score band, whitelisted or not, with category lists *)
(* of up to MaxCategories names.                                               *)
CategoryNames ==
    {"malware", "Phishing", "spam", "Botnet", "proxy", "Tor Exit Node", "Port Scan",
     "brute-force"}

Scores == {0, 1, 39, 40, 69, 70, 89, 90, 100}

ProbeGeo ==
    {GeoFail("1.2.3.4"), [status |-> "fail", query |-> "1.2.3.4"],
     GeoSparse("1.2.3.4"), GeoOk("1.2.3.4", FALSE, FALSE),
     GeoOk("1.2.3.4", TRUE, FALSE), GeoOk("1.2.3.4", FALSE, TRUE),
     GeoOk("1.2.3.4", TRUE, TRUE)}

ProbeAbuse ==
    {NullRec}
    \cup {[source |-> "AbuseIPDB", abuseConfidenceScore |-> c, totalReports |-> Len(l),
           categories |-> l, lastReportedAt |-> NullTime, isWhitelisted |-> w] :
             c \in Scores, l \in SeqsUpTo(CategoryNames, MaxCategories), w \in BOOLEAN}
    \cup {[source |-> "AbuseIPDB", categories |-> l, lastReportedAt |-> NullTime,
           isWhitelisted |-> FALSE] : l \in {<<>>, <<"spam">>}}

InitClassifier ==
    /\ cache = {}
    /\ clock = 0
    /\ ticks = 0
    /\ columnDefault = "now"
    /\ apiKeySet = TRUE
    /\ req = [r \in Reqs |-> IdleReq]
    /\ threatStoredAt = [ip \in IPs |-> NullTime]
    /\ probe \in {[ip |-> "1.2.3.4", geoIpData |-> g, abuseIpDbData |-> a, result |-> NullRec] :
                     g \in ProbeGeo, a \in ProbeAbuse}
    /\ ui = IdleUi

Derive ==
    /\ probe.result = NullRec
    /\ probe' = [probe EXCEPT !.result =
                     deriveIPAnalysisResult(probe.ip, probe.geoIpData, probe.abuseIpDbData, clock)]
    /\ UNCHANGED <<cache, clock, ticks, columnDefault, apiKeySet, req, threatStoredAt, ui>>

NextClassifier == Derive

SpecClassifier == InitClassifier /\ [][NextClassifier]_vars

(* The front end on its own: uploads, answers of the backend, Try Again. *)
InitApp ==
    /\ cache = {}
    /\ clock = 0
    /\ ticks = 0
    /\ columnDefault = "now"
    /\ apiKeySet = TRUE
    /\ req = [r \in Reqs |-> IdleReq]
    /\ threatStoredAt = [ip \in IPs |-> NullTime]
    /\ probe = NullRec
    /\ ui = IdleUi

NextApp ==
    \/ \E lines \in Files : StartUpload(lines)
    \/ FileRead
    \/ FileReadFails
    \/ \E answer \in UNION {BackendAnswers(ExtractIPs(lines)) : lines \in Files} :
          BackendAnswered(answer)
    \/ TryAgain

SpecApp == InitApp /\ [][NextApp]_vars

(* The table as the specification describes it: a first insert stamps both *)
(* timestamp columns with the time of the write.                           *)
InitStamped == Init /\ columnDefault = "now"

SpecStamped == InitStamped /\ [][NextAging]_vars

----------------------------------------------------------------------------
(* Properties *)

Last(q) == q[Len(q)]

GeoCalls(s) == Cardinality({i \in DOMAIN s.calls : s.calls[i].to = "geo"})

IsGenericError(result) ==
    /\ result.status = "error"
    /\ result.threatLevel = "unknown"
    /\ result.confidence = 0
    /\ result.reputation = 0

(* Handler r took a step. *)
Moved(r) == req'[r] # req[r]

(* Handler r's INSERT ... ON CONFLICT completed in this step. *)
Wrote(r) == req[r].pc = "write" /\ Moved(r) /\ req'[r].exit = "written"

\* C1: every 200 response holds exactly one result per input IP, and the result
\* at index i carries the IP at index i of the input, whatever failed on the way.
C1_OneResultPerIpInOrder ==
    \A r \in Reqs :
        (req[r].pc = "done" /\ req[r].response.status = 200) =>
            /\ Len(req[r].response.body) = Len(req[r].ipAddresses)
            /\ \A i \in 1..Len(req[r].ipAddresses) :
                  req[r].response.body[i].ip = req[r].ipAddresses[i]

\* C2: when a step of an IP's pipeline throws, what is emitted for that IP is one
\* generic error result, and the loop goes on with the next IP (or responds).
C2_FailureGivesOneErrorResult ==
    \A r \in Reqs :
        req[r].exit = "caught" =>
            /\ Len(req[r].emitted) = 1
            /\ IsGenericError(req[r].emitted[1])
            /\ req[r].pc \in {"read", "done"}

\* C3: when the geo lookup of an uncached IP returns null or status "fail", one
\* error result is emitted for the IP, no threat lookup is made for it, the cache
\* is left as it was, and the loop goes on with the next IP.
C3_GeoFailureSkipsThreatAndCache ==
    [][\A r \in Reqs :
          (/\ req[r].pc = "geo"
           /\ Moved(r)
           /\ Last(req'[r].calls).gave \in {"null", "fail"})
          => /\ req'[r].exit = "continue"
             /\ Len(req'[r].emitted) = 1
             /\ IsGenericError(req'[r].emitted[1])
             /\ req'[r].emitted[1].ip = CurrentIp(req[r])
             /\ req'[r].results = Append(req[r].results, req'[r].emitted[1])
             /\ \A i \in DOMAIN req'[r].calls : req'[r].calls[i].to # "threat"
             /\ cache' = cache
             /\ IF req[r].idx < Len(req[r].ipAddresses)
                THEN req'[r].pc = "read" /\ req'[r].idx = req[r].idx + 1
                ELSE req'[r].pc = "done"]_vars

C3_Witness ==
    \E r \in Reqs :
        /\ req[r].exit = "continue"
        /\ req[r].pc = "read"
        /\ Last(req[r].calls) = [to |-> "geo", gave |-> "fail"]
        /\ cache # {}

\* C4: when the threat lookup yields no data (no API key, a non-success status,
\* an empty payload or an exception), the IP gets the geo-only classification, not
\* an error result, and the cache write is issued.
C4_NoThreatDataIsNotAnError ==
    [][\A r \in Reqs :
          (/\ req[r].pc = "threat"
           /\ Moved(r)
           /\ req'[r].pc # "threat"
           /\ apiKeySet => (Last(req'[r].calls).to = "threat" /\ Last(req'[r].calls).gave = "nodata"))
          => LET geo == req[r].geoIpData
                 res == req'[r].analysisResult
             IN  /\ req'[r].pc = "write"
                 /\ req'[r].emitted = <<res>>
                 /\ req'[r].results = Append(req[r].results, res)
                 /\ res.ip = CurrentIp(req[r])
                 /\ res.details.categories = <<>>
                 /\ IF geo.proxy \/ geo.hosting
                    THEN /\ res.status = "suspicious" /\ res.threatLevel = "medium"
                         /\ res.threatType = (IF geo.proxy THEN "proxy" ELSE "hosting")
                         /\ res.confidence = 50 /\ res.reputation = 50
                    ELSE /\ res.status = "safe" /\ res.threatLevel = "low"
                         /\ res.threatType = "none"
                         /\ res.confidence = 0 /\ res.reputation = 100]_vars

C4_Witness ==
    \E r \in Reqs :
        /\ req[r].pc = "write"
        /\ apiKeySet
        /\ Last(req[r].calls).to = "threat"
        /\ Last(req[r].calls).gave = "nodata"
        /\ req[r].analysisResult.threatType = "hosting"

\* C5: an analysis that finds a cache record for its IP never calls the geo
\* collaborator; one that finds none calls it, exactly once.
C5_GeoOnlyOnCacheMiss ==
    [][\A r \in Reqs :
          LET s == req[r]
              t == req'[r]
          IN  /\ GeoCalls(t) <= 1
              /\ GeoCalls(t) > GeoCalls(s) => s.pc = "geo" /\ s.cachedData = NullRec
              /\ (s.pc = "read" /\ Moved(r) /\ RowsOf(cache, CurrentIp(s)) # {})
                    => t.pc # "geo" /\ GeoCalls(t) = 0
              /\ (s.pc = "read" /\ Moved(r) /\ RowsOf(cache, CurrentIp(s)) = {} /\ t.exit # "caught")
                    => t.pc = "geo"
              /\ (s.pc = "geo" /\ Moved(r)) => t.pc # "geo" /\ GeoCalls(t) = 1
              /\ (s.pc \in {"threat", "write"} /\ Moved(r) /\ t.pc \in {"threat", "write"})
                    => GeoCalls(t) = GeoCalls(s)]_vars

C5_Witness ==
    \E r \in Reqs :
        /\ req[r].pc = "write"
        /\ req[r].cachedData # NullRec
        /\ GeoCalls(req[r]) = 0
        /\ req[r].idx = 2
        /\ req[r].ipAddresses[1] = req[r].ipAddresses[2]

\* C6: for an IP with a cache record the threat lookup is made unless the record
\* has a threat timestamp less than 24 hours old: made at exactly 24 hours and
\* beyond, made without a timestamp, skipped below 24 hours.
C6_ThreatLookupUnlessYoungerThan24h ==
    [][\A r \in Reqs :
          LET s == req[r]
              t == req'[r]
          IN  /\ (s.pc = "read" /\ Moved(r) /\ t.exit # "caught"
                    /\ RowsOf(cache, CurrentIp(s)) # {})
                 => LET stamp == (CHOOSE row \in RowsOf(cache, CurrentIp(s)) : TRUE).threat_cached_at
                        young == stamp # NullTime /\ clock - stamp < 24 * HourMs
                    IN  IF young THEN t.pc = "write" /\ Attempts(t) = 0
                                 ELSE t.pc = "threat"
              /\ Attempts(t) > Attempts(s) => s.pc = "threat"
              /\ (s.pc = "threat" /\ Moved(r) /\ apiKeySet) => Attempts(t) = Attempts(s) + 1]_vars

C6_Witness ==
    \E r \in Reqs :
        /\ req[r].pc = "threat"
        /\ req[r].cachedData # NullRec
        /\ req[r].cachedData.threat_cached_at # NullTime
        /\ clock - req[r].cachedData.threat_cached_at = 24 * HourMs

\* C7: no result is built from cached threat fields whose last lookup at the
\* threat collaborator lies 24 hours or more in the past.
C7_CachedThreatDataExpires ==
    \A r \in Reqs :
        (req[r].pc = "write" /\ ~req[r].shouldFetchThreat) =>
            (threatStoredAt[CurrentIp(req[r])] # NullTime
                => clock - threatStoredAt[CurrentIp(req[r])] < 24 * HourMs)

\* C8: every completed cache write, a first insert as much as an update, with
\* the threat data looked up or reused from the cache, leaves both stored
\* timestamps of the IP equal to the time of the write; a write that reuses fresh
\* cached threat data does so without a call of the threat collaborator.
C8_EveryWriteStampsBoth ==
    [][\A r \in Reqs :
          Wrote(r) =>
              /\ RowsOf(cache', CurrentIp(req[r])) # {}
              /\ \A row \in RowsOf(cache', CurrentIp(req[r])) :
                    row.query_time = clock /\ row.threat_cached_at = clock
              /\ ~req[r].shouldFetchThreat => Attempts(req[r]) = 0]_vars

C8_Witness ==
    \E r \in Reqs :
        /\ req[r].pc = "done"
        /\ req[r].exit = "written"
        /\ req[r].calls = <<>>
        /\ \E row \in RowsOf(cache, CurrentIp(req[r])) :
              /\ row.threat_cached_at = clock
              /\ row.query_time = clock
              /\ threatStoredAt[row.ip_address] # NullTime
              /\ threatStoredAt[row.ip_address] < clock

\* C9: an analysis that reuses fresh cached threat data makes no threat lookup
\* and gives the result the previous analysis stored for the IP, in every field
\* but the timestamps.
C9_ReanalysisReproducesResult ==
    \A r \in Reqs :
        (req[r].pc = "write" /\ ~req[r].shouldFetchThreat) =>
            LET res == req[r].analysisResult
                old == req[r].cachedData
            IN  /\ Attempts(req[r]) = 0
                /\ res.status = old.status
                /\ res.threatLevel = old.threat_level
                /\ res.threatType = old.threat_type
                /\ res.confidence = old.confidence
                /\ res.reputation = old.reputation
                /\ res.location = OrUnknown(old, "city") \o ", " \o OrUnknown(old, "country")
                /\ res.isp = OrUnknown(old, "isp")
                /\ \A f \in {"malware", "phishing", "spam", "botnet", "proxy", "tor", "categories"} :
                      res.details[f] = old.details[f]

\* C10: the cache holds at most one record per IP; a record appears only through
\* the completed write of an analysis that got through geo lookup and
\* classification; a completed write for a cached IP replaces that record in
\* place; the set of cached IPs never shrinks.
C10_OneRecordPerIpNeverRemoved ==
    [][/\ \A ip \in IPs : Cardinality(RowsOf(cache', ip)) <= 1
       /\ CachedIPs(cache) \subseteq CachedIPs(cache')
       /\ \A ip \in CachedIPs(cache') \ CachedIPs(cache) :
             \E r \in Reqs :
                 /\ Wrote(r)
                 /\ CurrentIp(req[r]) = ip
                 /\ req[r].geoIpData.status = "success"
                 /\ req[r].analysisResult # NullRec
       /\ \A r \in Reqs :
             Wrote(r) =>
                 LET ip == CurrentIp(req[r])
                 IN  /\ ip \in CachedIPs(cache')
                     /\ \A row \in RowsOf(cache', ip) :
                           /\ row.status = req[r].analysisResult.status
                           /\ row.threat_type = req[r].analysisResult.threatType
                           /\ row.confidence = req[r].analysisResult.confidence
                     /\ {row \in cache' : row.ip_address # ip} = {row \in cache : row.ip_address # ip}
                     /\ ip \in CachedIPs(cache) => Cardinality(cache') = Cardinality(cache)]_vars

C10_Witness ==
    \E r \in Reqs :
        /\ req[r].exit = "written"
        /\ req[r].calls = <<>>
        /\ Cardinality(cache) = 2
        /\ CachedIPs(cache) = IPs

\* C11: within one request the IPs are processed one after another in input order:
\* the handler leaves the IP at index i only for index i + 1 (or the response), and
\* only in the step that completes the cache write of IP i or emits its error
\* result; a cache write touches the record of the IP in progress and no other.
C11_OneIpAtATime ==
    [][\A r \in Reqs :
          LET s == req[r]
              t == req'[r]
              InProgress == s.pc \in {"read", "geo", "threat", "write"}
              Left == t.pc = "done" \/ t.idx # s.idx
          IN  /\ (InProgress /\ Moved(r) /\ ~Left) =>
                    /\ t.idx = s.idx
                    /\ t.ipAddresses = s.ipAddresses
                    /\ t.pc \in {"geo", "threat", "write"}
              /\ (InProgress /\ Moved(r) /\ Left) =>
                    /\ IF s.idx < Len(s.ipAddresses)
                       THEN t.pc = "read" /\ t.idx = s.idx + 1
                       ELSE t.pc = "done" /\ t.idx = s.idx
                    /\ \/ /\ Wrote(r)
                          /\ RowsOf(cache', CurrentIp(s)) # {}
                       \/ /\ t.exit \in {"continue", "caught"}
                          /\ cache' = cache
                          /\ Last(t.results).ip = CurrentIp(s)
                          /\ Last(t.results).status = "error"
              /\ (InProgress /\ Moved(r)) =>
                    {row \in cache' : row.ip_address # CurrentIp(s)}
                        = {row \in cache : row.ip_address # CurrentIp(s)}]_vars

C11_Witness ==
    \E r \in Reqs :
        /\ req[r].pc = "geo"
        /\ req[r].idx = 2
        /\ req[r].ipAddresses = <<"1.2.3.4", "5.6.7.8">>
        /\ RowsOf(cache, "1.2.3.4") # {}
        /\ RowsOf(cache, "5.6.7.8") = {}

\* C13: a request whose body has no ipAddresses, a non-array ipAddresses or an
\* empty array is answered with status 400 and an object with an error message,
\* and from its arrival to its answer nothing is read from or written to the
\* cache and no collaborator is called.
C13_InvalidBodyGets400 ==
    [][\A r \in Reqs :
          LET s == req[r]
              t == req'[r]
              Invalid(body) == body.kind \in {"missing", "nonarray"}
                                 \/ (body.kind = "array" /\ body.ipAddresses = <<>>)
          IN  /\ (s.pc = "idle" /\ Moved(r) /\ Invalid(t.body)) =>
                    /\ t.pc = "done"
                    /\ t.response.status = 400
                    /\ DOMAIN t.response.body = {"error"}
                    /\ t.response.body.error # ""
                    /\ t.calls = <<>> /\ t.results = <<>> /\ t.cachedData = NullRec
                    /\ cache' = cache
              /\ (s.pc = "done" /\ Invalid(s.body) /\ Moved(r)) =>
                    /\ t = IdleReq
                    /\ cache' = cache]_vars

C13_Witness ==
    \E r \in Reqs :
        /\ req[r].pc = "done"
        /\ req[r].body = [kind |-> "array", ipAddresses |-> <<>>]
        /\ req[r].response.status = 400
        /\ cache # {}

(* Handler r is between the cache read and the cache write of its current IP. *)
InSequence(r) == req[r].pc \in {"geo", "threat", "write"}

\* C12: two requests handled concurrently are never both between the cache read
\* and the cache write of the same IP.
C12_SameIpSequencesDoNotInterleave ==
    \A r1 \in Reqs : \A r2 \in Reqs \ {r1} :
        ~(/\ InSequence(r1)
          /\ InSequence(r2)
          /\ CurrentIp(req[r1]) = CurrentIp(req[r2]))

\* C14: every request that passes validation eventually gets its 200 response,
\* whatever the collaborators and the store answer, a threat service that keeps
\* answering 429 included.
C14_ValidRequestGets200 ==
    \A r \in Reqs :
        (req[r].pc = "read") ~> (req[r].pc = "done" /\ req[r].response.status = 200)

\* C15: a 429 answer never ends the threat lookup: after each one the lookup
\* waits the advised Retry-After seconds (60 without the header) plus 5 and asks
\* again; the first answer that is not a 429 ends it, a non-success status or an
\* exception with no data and without another request.
C15_RateLimitIsRetriedNotSurfaced ==
    [][\A r \in Reqs :
          LET s == req[r]
              t == req'[r]
          IN  (s.pc = "threat" /\ Moved(r) /\ apiKeySet) =>
                  /\ Attempts(t) = Attempts(s) + 1
                  /\ Last(t.calls).to = "threat"
                  /\ (Last(t.calls).gave = "429") = (t.pc = "threat")
                  /\ t.pc = "threat" =>
                        /\ t.answer.kind = "429"
                        /\ t.abuseIpDbData = s.abuseIpDbData
                        /\ t.results = s.results
                        /\ t.idx = s.idx
                        /\ t.waitTime = (IF t.answer.retryAfter = NULL THEN 65000 ELSE 35000)
                  /\ t.pc = "write" =>
                        /\ t.answer.kind \in {"exception", "not ok", "ok"}
                        /\ t.answer.kind \in {"exception", "not ok"} => t.abuseIpDbData = NullRec
                        /\ (Last(t.calls).gave = "nodata") = (t.abuseIpDbData = NullRec)
                  /\ t.pc \notin {"threat", "write"} => t.exit = "caught"]_vars

C15_Witness ==
    \E r \in Reqs :
        /\ req[r].pc = "write"
        /\ Attempts(req[r]) = 3
        /\ req[r].answer.kind = "not ok"
        /\ req[r].waitTime = 35000
        /\ req[r].abuseIpDbData = NullRec

(* The classifier has returned, for threat data on a geo answer that is not a failure. *)
Derived ==
    /\ probe # NullRec
    /\ probe.result # NullRec
    /\ probe.abuseIpDbData # NullRec
    /\ probe.geoIpData.status # "fail"

\* C16: on a geo success, whitelisted threat data gives safe / low / whitelisted
\* with confidence 0 and reputation 100, whatever its score and categories.
C16_WhitelistedOverridesAll ==
    (Derived /\ probe.abuseIpDbData.isWhitelisted) =>
        /\ probe.result.status = "safe"
        /\ probe.result.threatLevel = "low"
        /\ probe.result.threatType = "whitelisted"
        /\ probe.result.confidence = 0
        /\ probe.result.reputation = 100

\* C19: on a geo success, threat data that is not whitelisted is graded by its
\* score c (0 when missing): malicious / critical from 90, malicious / high from
\* 70, suspicious / medium from 40, suspicious / low above 0, safe / low at 0, and
\* the result's confidence is c.
C19_ScoreThresholds ==
    (Derived /\ ~probe.abuseIpDbData.isWhitelisted) =>
            LET a == probe.abuseIpDbData
                c == IF "abuseConfidenceScore" \in DOMAIN a THEN a.abuseConfidenceScore ELSE 0
                res == probe.result
            IN  /\ res.confidence = c
                /\ c >= 90 => res.status = "malicious" /\ res.threatLevel = "critical"
                /\ (70 <= c /\ c < 90) => res.status = "malicious" /\ res.threatLevel = "high"
                /\ (40 <= c /\ c < 70) => res.status = "suspicious" /\ res.threatLevel = "medium"
                /\ (0 < c /\ c < 40) => res.status = "suspicious" /\ res.threatLevel = "low"
                /\ c = 0 => res.status = "safe" /\ res.threatLevel = "low"

C19_Witness ==
    LET a == probe.abuseIpDbData
    IN  /\ Derived
        /\ ~a.isWhitelisted
        /\ "abuseConfidenceScore" \in DOMAIN a
        /\ a.abuseConfidenceScore = 90
        /\ a.categories = <<"Port Scan", "spam">>
        /\ probe.result.threatLevel = "critical"

\* C17: every result with status safe that the endpoint returns has confidence 0
\* and threatType "none" or "whitelisted".
C17_SafeMeansNoThreatType ==
    \A r \in Reqs :
        \A i \in DOMAIN req[r].results :
            req[r].results[i].status = "safe" =>
                /\ req[r].results[i].confidence = 0
                /\ req[r].results[i].threatType \in {"none", "whitelisted"}

\* C18: every result with status error, from the handler's geo-failure branch,
\* from its catch block or from the classifier's geo-fail branch, has confidence
\* 0, reputation 0, location "Unknown" and isp "Unknown".
C18_ErrorResultsAreUnknown ==
    LET IsUnknown(result) ==
            result.status = "error" =>
                /\ result.confidence = 0
                /\ result.reputation = 0
                /\ result.location = "Unknown"
                /\ result.isp = "Unknown"
    IN  /\ \A r \in Reqs : \A i \in DOMAIN req[r].results : IsUnknown(req[r].results[i])
        /\ (probe # NullRec /\ probe.result # NullRec) => IsUnknown(probe.result)

(* The categories the precedence knows, highest first, and their tags. *)
KnownCategories == <<"malware", "phishing", "spam", "botnet", "proxy", "tor exit node">>

TagOf(category) == IF category = "tor exit node" THEN "tor" ELSE category

(* The position in KnownCategories of the highest category the list names, or 0. *)
FirstKnown(list) ==
    LET hits == {k \in DOMAIN KnownCategories :
                    \E i \in DOMAIN list : toLowerCase(list[i]) = KnownCategories[k]}
    IN  IF hits = {} THEN 0 ELSE CHOOSE k \in hits : \A j \in hits : k <= j

(* The flags of the geo answer with the flag of one tag set. *)
FlagsWith(geoIpData, tag) ==
    [f \in {"malware", "phishing", "spam", "botnet", "proxy", "tor"} |->
        IF f = tag THEN TRUE ELSE DetailsOf(geoIpData)[f]]

Flags(result) ==
    [f \in {"malware", "phishing", "spam", "botnet", "proxy", "tor"} |-> result.details[f]]

\* C20 (as stated): with threat data present threatType follows the precedence
\* malware, phishing, spam, botnet, proxy, tor exit node (tag tor) whatever the
\* order of the list, and the matching flag is the one set; without a known
\* category threatType is the first category with whitespace replaced by
\* underscores; with an empty list it is generic_suspicious when confidence > 0
\* and none when confidence = 0 and the data is not whitelisted.
C20_CategoryPrecedence ==
        Derived =>
            LET a == probe.abuseIpDbData
                res == probe.result
                k == FirstKnown(a.categories)
            IN  IF k # 0
                THEN /\ res.threatType = TagOf(KnownCategories[k])
                     /\ Flags(res) = FlagsWith(probe.geoIpData, TagOf(KnownCategories[k]))
                ELSE IF a.categories # <<>>
                THEN res.threatType = replaceWhitespace(a.categories[1])
                ELSE /\ res.confidence > 0 => res.threatType = "generic_suspicious"
                     /\ (res.confidence = 0 /\ ~a.isWhitelisted) => res.threatType = "none"

\* C20 (amended): as above, but without a known category threatType is the first
\* category in lower case with whitespace replaced by underscores (category
\* names being non-empty strings), and the flags stay those of the geo answer.
C20_CategoryPrecedenceLowerCased ==
        Derived =>
            LET a == probe.abuseIpDbData
                res == probe.result
                k == FirstKnown(a.categories)
            IN  IF k # 0
                THEN /\ res.threatType = TagOf(KnownCategories[k])
                     /\ Flags(res) = FlagsWith(probe.geoIpData, TagOf(KnownCategories[k]))
                ELSE IF a.categories # <<>>
                THEN /\ Flags(res) = FlagsWith(probe.geoIpData, "none")
                     /\ res.threatType = replaceWhitespace(toLowerCase(a.categories[1]))
                ELSE /\ res.confidence > 0 => res.threatType = "generic_suspicious"
                     /\ (res.confidence = 0 /\ ~a.isWhitelisted) => res.threatType = "none"

C20_Witness ==
    LET a == probe.abuseIpDbData
    IN  /\ Derived
        /\ a.categories = <<"spam", "malware">>
        /\ probe.geoIpData.proxy
        /\ probe.result.threatType = "malware"
        /\ probe.result.details.malware
        /\ ~probe.result.details.spam

(* The classifier has returned. *)
Returned == probe # NullRec /\ probe.result # NullRec

\* C21: for threat scores in 0..100 every result of the classifier has confidence
\* and reputation in 0..100; they add up to 100 in the threat-data branch, are 0
\* and 100 in the whitelist override, 50 and 50 in the geo-only proxy / hosting
\* branch, 0 and 100 in the geo-only default branch, and 0 and 0 in an error
\* result, the handler's own error results included.
C21_ConfidenceAndReputation ==
    /\ \A r \in Reqs : \A i \in DOMAIN req[r].results :
          req[r].results[i].status = "error" =>
              req[r].results[i].confidence = 0 /\ req[r].results[i].reputation = 0
    /\ Returned =>
          LET geo == probe.geoIpData
              a == probe.abuseIpDbData
              res == probe.result
          IN  /\ res.confidence \in 0..100
              /\ res.reputation \in 0..100
              /\ IF geo.status = "fail"
                 THEN res.status = "error" /\ res.confidence = 0 /\ res.reputation = 0
                 ELSE IF a = NullRec
                 THEN IF geo.proxy \/ geo.hosting
                      THEN res.confidence = 50 /\ res.reputation = 50
                      ELSE res.confidence = 0 /\ res.reputation = 100
                 ELSE IF a.isWhitelisted
                 THEN res.confidence = 0 /\ res.reputation = 100
                 ELSE res.confidence + res.reputation = 100

C21_Witness ==
    /\ Derived
    /\ probe.abuseIpDbData.isWhitelisted
    /\ probe.abuseIpDbData.abuseConfidenceScore = 90
    /\ probe.result.confidence = 0
    /\ probe.result.reputation = 100

\* C22: on geo data with status fail the classifier returns error / unknown with
\* confidence 0, reputation 0 and the geo message as threatType ("Geo-IP API
\* Error" without one), whatever threat data it is given, and sets no flag and no
\* category from the threat data.
C22_GeoFailShortCircuits ==
    (Returned /\ probe.geoIpData.status = "fail") =>
        LET res == probe.result
        IN  /\ res.status = "error"
            /\ res.threatLevel = "unknown"
            /\ res.confidence = 0
            /\ res.reputation = 0
            /\ res.threatType = (IF "message" \in DOMAIN probe.geoIpData
                                 THEN probe.geoIpData.message ELSE "Geo-IP API Error")
            /\ \A f \in {"malware", "phishing", "spam", "botnet", "proxy", "tor"} :
                  ~res.details[f]
            /\ res.details.categories = <<>>

C22_Witness ==
    /\ Returned
    /\ probe.geoIpData.status = "fail"
    /\ "message" \notin DOMAIN probe.geoIpData
    /\ probe.abuseIpDbData # NullRec
    /\ probe.abuseIpDbData.isWhitelisted
    /\ probe.abuseIpDbData.abuseConfidenceScore = 100
    /\ probe.abuseIpDbData.categories = <<"malware">>
    /\ probe.result.threatType = "Geo-IP API Error"

\* C23: on a geo success without threat data the classifier returns suspicious /
\* medium with confidence 50 and reputation 50, threatType proxy when the proxy
\* flag is set and hosting when only the hosting flag is, and otherwise safe / low
\* / none with confidence 0 and reputation 100.
C23_GeoOnlyHeuristic ==
    (Returned /\ probe.geoIpData.status # "fail" /\ probe.abuseIpDbData = NullRec) =>
        LET geo == probe.geoIpData
            res == probe.result
        IN  IF geo.proxy \/ geo.hosting
            THEN /\ res.status = "suspicious" /\ res.threatLevel = "medium"
                 /\ res.confidence = 50 /\ res.reputation = 50
                 /\ res.threatType = (IF geo.proxy THEN "proxy" ELSE "hosting")
            ELSE /\ res.status = "safe" /\ res.threatLevel = "low"
                 /\ res.threatType = "none"
                 /\ res.confidence = 0 /\ res.reputation = 100

C23_Witness ==
    /\ Returned
    /\ probe.abuseIpDbData = NullRec
    /\ probe.geoIpData.status = "success"
    /\ probe.geoIpData.hosting /\ ~probe.geoIpData.proxy
    /\ probe.result.threatType = "hosting"

(* The row stores the classification of the result. *)
StoresClassification(row, result) ==
    /\ row.status = result.status
    /\ row.threat_level = result.threatLevel
    /\ row.threat_type = result.threatType
    /\ row.confidence = result.confidence
    /\ row.reputation = result.reputation
    /\ row.details = result.details

(* The current IP missed the cache and both collaborators gave data. *)
FetchedBoth(s) ==
    /\ s.cachedData = NullRec
    /\ GeoCalls(s) = 1
    /\ s.geoIpData # NullRec
    /\ s.abuseIpDbData # NullRec
    /\ ThreatCalled(s)

\* C24: on a cache miss where both lookups give data, the result emitted is the
\* classifier's result on the geo and threat data just fetched, and the write
\* leaves one record of the IP holding that result's status, threat level,
\* threat type, confidence, reputation and details.
C24_MissIsClassifiedAndStored ==
    [][\A r \in Reqs :
         (Wrote(r) /\ FetchedBoth(req[r])) =>
             LET s == req[r]
                 ip == CurrentIp(s)
                 expected == deriveIPAnalysisResult(ip, s.geoIpData, s.abuseIpDbData, clock)
             IN  /\ Last(s.results) = expected
                 /\ Last(req'[r].results) = expected
                 /\ Cardinality(RowsOf(cache', ip)) = 1
                 /\ \A row \in RowsOf(cache', ip) : StoresClassification(row, expected)]_vars

C24_Witness ==
    /\ req[1].exit = "written"
    /\ req[1].pc = "done"
    /\ req[1].ipAddresses = <<"1.2.3.4">>
    /\ GeoCalls(req[1]) = 1
    /\ req[1].calls[1].gave = "success"
    /\ Last(req[1].calls).to = "threat"
    /\ Last(req[1].calls).gave = "data"
    /\ LET result == req[1].response.body[1]
       IN  /\ result.location = "Ashburn, US"
           /\ ~result.details.proxy
           /\ result.details.malware
           /\ result.status = "malicious"
           /\ result.threatLevel = "critical"
           /\ result.threatType = "malware"
           /\ result.confidence = 95
           /\ result.reputation = 5
           /\ \E row \in cache :
                 row.ip_address = "1.2.3.4" /\ StoresClassification(row, result)

\* C26: every record of the cache has status safe, suspicious or malicious; an
\* error result, from a geo failure or from the catch block, is never stored.
C26_NoErrorRecord ==
    \A row \in cache : row.status \in {"safe", "suspicious", "malicious"}

C26_Witness ==
    /\ req[1].exit = "caught"
    /\ req[1].pc = "done"
    /\ Last(req[1].results).status = "error"
    /\ \E row \in cache :
          /\ row.ip_address = Last(req[1].results).ip
          /\ row.status \in {"safe", "suspicious", "malicious"}

(* The record was stamped with threat data less than 24 hours before now. *)
StampedWithin24h(row, now) ==
    /\ row.threat_cached_at # NullTime
    /\ now - row.threat_cached_at < 24 * HourMs

\* C27: when the threat lookup for a cached IP gives no data, the write that
\* follows stamps the record's threat timestamp with the current time and stores
\* the geo-only classification; an analysis that finds a record stamped less than
\* 24 hours ago, such a record included, calls neither collaborator and
\* classifies with the stored confidence as the threat score.
C27_NoDataIsStampedAndReused ==
    [][\A r \in Reqs :
         LET s == req[r]
             ip == CurrentIp(s)
         IN  /\ (/\ Wrote(r)
                  /\ s.cachedData # NullRec
                  /\ s.shouldFetchThreat
                  /\ s.abuseIpDbData = NullRec) =>
                     LET geoOnly == deriveIPAnalysisResult(ip, s.geoIpData, NullRec, clock)
                     IN  /\ geoOnly.confidence \in {0, 50}
                         /\ geoOnly.threatType \in {"none", "proxy"}
                         /\ RowsOf(cache', ip) # {}
                         /\ \A row \in RowsOf(cache', ip) :
                               /\ row.threat_cached_at = clock
                               /\ StoresClassification(row, geoOnly)
             /\ (/\ s.pc = "read"
                  /\ Moved(r)
                  /\ req'[r].exit # "caught"
                  /\ \E row \in RowsOf(cache, ip) : StampedWithin24h(row, clock)) =>
                     \A row \in RowsOf(cache, ip) :
                         LET t == req'[r]
                             asThreatData ==
                                 [source |-> "Cached",
                                  abuseConfidenceScore |-> row.confidence,
                                  categories |-> row.details.categories,
                                  lastReportedAt |-> row.last_seen,
                                  isWhitelisted |-> row.threat_type = "whitelisted"]
                         IN  /\ t.pc = "write"
                             /\ t.calls = <<>>
                             /\ t.abuseIpDbData = asThreatData
                             /\ Last(t.results) =
                                    deriveIPAnalysisResult(ip, t.geoIpData, asThreatData, clock)
                             /\ ~asThreatData.isWhitelisted =>
                                    Last(t.results).confidence = row.confidence]_vars

C27_Witness ==
    /\ columnDefault = "null"
    /\ apiKeySet
    /\ req[1].pc = "write"
    /\ req[1].calls = <<>>
    /\ req[1].cachedData # NullRec
    /\ req[1].cachedData.threat_type = "proxy"
    /\ req[1].cachedData.confidence = 50
    /\ req[1].cachedData.threat_cached_at = threatStoredAt[CurrentIp(req[1])]
    /\ clock - req[1].cachedData.threat_cached_at = 23 * HourMs
    /\ req[1].abuseIpDbData.abuseConfidenceScore = 50
    /\ req[1].analysisResult.status = "suspicious"
    /\ req[1].analysisResult.threatType = "generic_suspicious"
    /\ req[1].analysisResult.confidence = 50

\* C28: when an IP that missed the cache was classified and written and the next
\* address of the batch is the same IP, the read of the second occurrence, unless
\* the read itself fails, finds the record, is followed by no geo call, and
\* builds the geo data from the record: status success, the stored location
\* fields, hosting false, proxy as in the stored details, query "Tor" if the
\* stored details have the tor flag and the IP otherwise.
C28_SecondOccurrenceReadsFirstsRecord ==
    [][\A r \in Reqs :
         LET s == req[r]
             t == req'[r]
             ip == CurrentIp(s)
         IN  (/\ s.pc = "read"
              /\ Moved(r)
              /\ t.exit # "caught"
              /\ s.idx >= 2
              /\ s.ipAddresses[s.idx - 1] = ip
              /\ s.exit = "written"
              /\ GeoCalls(s) = 1) =>
                 /\ Cardinality(RowsOf(cache, ip)) = 1
                 /\ t.cachedData \in RowsOf(cache, ip)
                 /\ StoresClassification(t.cachedData, s.results[Len(s.results)])
                 /\ t.pc \in {"threat", "write"}
                 /\ GeoCalls(t) = 0
                 /\ t.geoIpData.status = "success"
                 /\ t.geoIpData.country = t.cachedData.country
                 /\ t.geoIpData.regionName = t.cachedData.region
                 /\ t.geoIpData.city = t.cachedData.city
                 /\ t.geoIpData.isp = t.cachedData.isp
                 /\ t.geoIpData.org = t.cachedData.org
                 /\ t.geoIpData.hosting = FALSE
                 /\ t.geoIpData.proxy = t.cachedData.details.proxy
                 /\ t.geoIpData.query = (IF t.cachedData.details.tor THEN "Tor" ELSE ip)]_vars

C28_Witness ==
    /\ req[1].pc = "write"
    /\ req[1].idx = 2
    /\ req[1].ipAddresses[1] = req[1].ipAddresses[2]
    /\ Len(req[1].results) = 2
    /\ req[1].results[1].threatType = "hosting"
    /\ req[1].cachedData # NullRec
    /\ req[1].cachedData.threat_type = "hosting"
    /\ GeoCalls(req[1]) = 0
    /\ req[1].geoIpData.hosting = FALSE
    /\ req[1].results[2].status = "suspicious"

\* C29: the record of an IP changes only when a write for that IP succeeds, and
\* then it is the one record of the IP and holds the status, threat level, threat
\* type, confidence, reputation and details of the result just emitted for it; a
\* failing write, like every other step, leaves every record as it was. Hence
\* each record always equals the result of the last processing of its IP whose
\* write succeeded.
C29_RecordIsLastWrittenResult ==
    [][/\ \A r \in Reqs :
            LET s == req[r]
                ip == CurrentIp(s)
            IN  /\ Wrote(r) =>
                     /\ Last(s.emitted) = Last(s.results)
                     /\ Last(s.emitted).ip = ip
                     /\ Cardinality(RowsOf(cache', ip)) = 1
                     /\ \A row \in RowsOf(cache', ip) :
                           StoresClassification(row, Last(s.emitted))
                     /\ \A other \in IPs \ {ip} : RowsOf(cache', other) = RowsOf(cache, other)
                /\ (s.pc = "write" /\ Moved(r) /\ req'[r].exit = "caught") => cache' = cache
       /\ (\A r \in Reqs : ~Wrote(r)) => cache' = cache]_vars

C29_Witness ==
    /\ req[1].exit = "caught"
    /\ Len(req[1].emitted) = 2
    /\ req[1].emitted[1].status # "error"
    /\ req[1].emitted[2].status = "error"
    /\ \E row \in cache :
          /\ row.ip_address = req[1].emitted[1].ip
          /\ ~StoresClassification(row, req[1].emitted[1])
          /\ row.threat_type = "hosting"
    /\ \E row \in cache : row.ip_address # req[1].emitted[1].ip

\* C25: with two requests in flight, every completed write leaves exactly one
\* record of its IP, and every column of that record is the value this one write
\* passed, whatever record another request wrote for the IP since this request
\* read the cache; the records of every other IP stay as they were.
C25_UpsertIsAtomicLastWriteWins ==
    [][\A r \in Reqs :
         Wrote(r) =>
             LET s == req[r]
                 ip == CurrentIp(s)
                 values == RowValues(ip, s.geoIpData, s.analysisResult)
             IN  /\ Cardinality(RowsOf(cache', ip)) = 1
                 /\ \A row \in RowsOf(cache', ip) :
                       /\ \A f \in DOMAIN values : row[f] = values[f]
                       /\ row.query_time = row.threat_cached_at
                 /\ {row \in cache' : row.ip_address # ip} =
                        {row \in cache : row.ip_address # ip}]_vars

(* Handler 1 read the cache before the IP had a record and is about to write; *)
(* handler 2 missed the cache too and has written a different verdict since.  *)
C25_Witness ==
    /\ req[1].pc = "write"
    /\ req[1].cachedData = NullRec
    /\ req[2].pc = "done"
    /\ req[2].exit = "written"
    /\ GeoCalls(req[2]) = 1
    /\ CurrentIp(req[1]) = req[2].ipAddresses[1]
    /\ \E row \in RowsOf(cache, CurrentIp(req[1])) :
          /\ StoresClassification(row, req[2].results[1])
          /\ row.status # req[1].analysisResult.status
    /\ \E row \in cache : row.ip_address # CurrentIp(req[1])

(* The addresses among SampleLines, as the front end sends them. *)
ValidSampleIPs ==
    {<<"1", ".", "2", ".", "3", ".", "4">>,
     <<"5", ".", "6", ".", "7", ".", "8">>,
     <<"2", "5", "5", ".", "0", ".", "0", ".", "1">>,
     <<"0", "1", ".", "2", ".", "3", ".", "0", "0", "4">>}

\* C30: the front end shows exactly one of upload form, processing indicator,
\* error panel and results at any time; starting an upload clears error and
\* results and sets processing; the end of an upload clears processing and
\* leaves exactly one of non-empty results or an error; the backend request is
\* sent only with the file's valid IPv4 lines, and not at all without one.
C30_OneViewAtATime ==
    [][/\ Cardinality(Shown(ui)) = 1
       /\ Cardinality(Shown(ui')) = 1
       /\ (ui.pc = "idle" /\ ui'.pc = "reading") =>
             /\ ui'.isProcessing
             /\ ui'.error = NULL
             /\ ui'.results = <<>>
             /\ Shown(ui') = {"processing"}
       /\ (ui.pc # "idle" /\ ui'.pc = "idle") =>
             /\ ~ui'.isProcessing
             /\ (Len(ui'.results) > 0) # (ui'.error \notin {NULL, ""})
             /\ Shown(ui') \in {{"results"}, {"error panel"}}
       /\ (ui.pc # "idle") => Shown(ui) = {"processing"}
       /\ (ui.pc = "reading" /\ ui'.pc # "reading") =>
             LET valid == {i \in DOMAIN ui.lines : trim(ui.lines[i]) \in ValidSampleIPs}
                 unreadable == ui'.error = "The requested file could not be read"
             IN  /\ ui'.sent => valid # {}
                 /\ ui'.sent = (ui'.pc = "fetching")
                 /\ ui'.sent =>
                       /\ Len(ui'.ipAddresses) = Cardinality(valid)
                       /\ \A i \in DOMAIN ui'.ipAddresses : ui'.ipAddresses[i] \in ValidSampleIPs
                 /\ ~unreadable => ui'.sent = (valid # {})
                 /\ (~unreadable /\ valid = {}) => ui'.error = NoValidIPs
       /\ (ui.pc = "fetching") => ui'.sent /\ UNCHANGED ui.ipAddresses]_vars

(* An upload of two lines, none a valid address, has ended: no request was sent *)
(* and the error panel is the one view shown.                                 *)
C30_Witness ==
    /\ ui.pc = "idle"
    /\ ~ui.sent
    /\ ui.error = NoValidIPs
    /\ ui.results = <<>>
    /\ ~ui.isProcessing
    /\ Len(ui.lines) = 2
    /\ Shown(ui) = {"error panel"}

====
